---- MODULE Spec2Model ----
(***************************************************************************)
(* Model of the chat request pipeline of ask-finance:                      *)
(*   - POST /api/chat (src/app/api/chat/route.ts): the SSE stream, the     *)
(*     callbacks that turn loop events into stream events, and the         *)
(*     persistence steps that run after the loop;                          *)
(*   - streamFinanceChat and executeTool (lib/agents/finance-agent): the   *)
(*     bounded tool-calling loop;                                          *)
(*   - handleStop of the thread page;                                      *)
(*   - the assembly of the message list sent to the model (SpecContext);   *)
(*   - ReportEvaluator and executeEvaluateReport (SpecEval);               *)
(*   - FinancialOrchestrator.analyze and executeComplexAnalysis (SpecOrch).*)
(* Each specification moves its own variables and leaves the others as     *)
(* the initial state set them.                                             *)
(* JavaScript runs each stretch of code between two awaits atomically, so  *)
(* every action is the code from the resumption of one await to the start  *)
(* of the next one.                                                        *)
(***************************************************************************)
EXTENDS Integers, Sequences, FiniteSets, TLC

\* ---------------------------------------------------------------- bounds
\* Longest text a model response carries.
MaxTextLen == 2
\* Most tool_use blocks in one model response.
MaxToolsPerResponse == 2
\* Most tool calls the model requests in one run.
MaxToolCalls == 5
\* The model answers with tool calls on the first `script` rounds, for
\* script in 0..MaxScript.
MaxScript == 6

\* Most rows of persisted history a request loads, and the longest content
\* of a row or of the new message, in characters.
MaxHistory == 3
MaxMsgLen == 3
\* Largest maxIterations an evaluate_report call is given.
MaxEvalIterations == 3
\* Most <task> blocks in a decomposition response.
MaxSubTasks == 3
\* Number of POST /api/chat requests.
MaxPosts == 2
\* Most content blocks in a model response, and most tool rounds, of the
\* conversation kept for the model.
MaxContentBlocks == 3
MaxRounds == 2
\* Most characters one reader.read() of the page delivers.
MaxChunk == 8

\* ------------------------------------------------------------- constants
\* finance-agent: const maxIterations = 5
maxIterations == 5

\* Characters of a model text; texts are the prefixes of this string.
Alphabet == <<"a", "b", "c", "d">>
Texts == {SubSeq(Alphabet, 1, n) : n \in 0..MaxTextLen}

\* Names the model puts in its tool_use blocks.
ToolNames == {"search_documents", "financial_calculation", "generate_chart",
              "generate_image"}

Min(a, b) == IF a < b THEN a ELSE b

\* ----------------------------------------------------------------- state
VARIABLES
    pc,              \* position of the request: which await is pending
    script,          \* number of leading rounds the model answers with tool calls
    iterations,      \* streamFinanceChat: iterations (= model calls started)
    continueLoop,    \* streamFinanceChat: continueLoop
    accumulatedText, \* streamFinanceChat: accumulatedText
    toolUseBlocks,   \* tool_use blocks of the current response (tool names)
    toolIdx,         \* index of the block being executed
    toolResults,     \* streamFinanceChat: toolResults of the current round
    outcome,         \* how streamFinanceChat returned (history)
    events,          \* events enqueued on the SSE stream, in order
    fullResponse,    \* route: fullResponse
    citations,       \* route: citations
    canvasContents,  \* route: canvasContents
    toolCalls,       \* route: toolCalls
    dbMessages,      \* rows of the messages table for this thread
    usageLogs,       \* rows inserted in usage_logs by this request
    threadRow,       \* the threads row: title rewritten, updated_at touched
    threadId,        \* request body threadId ("" when absent)
    persistFailed,   \* a persistence step threw (history)
    isStreaming,     \* thread page: isStreaming
    stopPressed,     \* the user pressed Stop (history)
    kb,              \* what the retrieval collaborator does in this request
    totalInputTokens,  \* streamFinanceChat: totalInputTokens
    totalOutputTokens, \* streamFinanceChat: totalOutputTokens
    modelTools,        \* the tool names the model puts in its tool_use blocks
    \* --- assembly of the message list (route.ts 77-91, streamFinanceChat 939-958)
    pcCtx,             \* position of the assembly
    previousMessages,  \* route: rows of the thread history, oldest first
    bodyMessage,       \* request body: message
    messages,          \* route: messages
    anthropicMessages, \* streamFinanceChat: anthropicMessages
    \* --- evaluate_report (executeEvaluateReport, ReportEvaluator)
    pcEval,            \* position of executeEvaluateReport: which await is pending
    evalInput,         \* tool input: optimize, maxIterations (0 when absent)
    initialEvaluation, \* executeEvaluateReport: evaluation
    evaluation,        \* optimize: evaluation / finalEval, the latest one
    currentReport,     \* optimize: currentReport
    optIterations,     \* optimize: iterations
    rewrites,          \* improvement calls answered in this run (history)
    optimized,         \* what optimize returned
    evalOutput,        \* what executeEvaluateReport returned
    ended,             \* how optimize returned: "passed" or "gave_up" (history)
    prevOptimized,     \* what optimize returned in the previous invocation
    prevEnded,         \* how the previous invocation ended
    \* --- complex_analysis (executeComplexAnalysis, FinancialOrchestrator)
    pcOrch,            \* position of analyze: which model call is pending
    subtasks,          \* analyze: subtasks
    workerIdx,         \* index of the subtask whose worker call is pending
    workerResults,     \* analyze: workerResults
    orchOutput,        \* what executeComplexAnalysis returned
    failedAt,          \* the call of analyze that rejected (history)
    workerResponses,   \* the responses of the worker calls, in order (history)
    \* --- POST /api/chat requests on the messages and threads tables
    posts,             \* per request: position, body, locals of POST, response
    messagesTable,     \* rows of the messages table, in insertion order
    threadsTable,      \* rows of the threads table inserted by the requests
    overlapped,        \* two requests were under way at the same time (history)
    \* --- the conversation streamFinanceChat keeps for the model
    pcRound,           \* position of the loop: which await is pending
    rounds,            \* streamFinanceChat: iterations
    assistantContent,  \* streamFinanceChat: assistantContent of the last response
    roundBlocks,       \* streamFinanceChat: toolUseBlocks, with their ids
    roundIdx,          \* index of the block being executed
    roundResults,      \* streamFinanceChat: toolResults, as sent to the model
    currentMessages,   \* streamFinanceChat: the turns appended to currentMessages
    nextId,            \* ids the model has used for its tool_use blocks
    \* --- the thread page: handleSend and the realtime subscription
    pcPage,            \* position of handleSend: which await is pending
    wire,              \* the characters of the response body, as the server wrote them
    rdPos,             \* how many of them reader.read() has delivered
    buffer,            \* handleSend: buffer
    handled,           \* the events the switch of handleSend was entered with (history)
    pageMessages,      \* page state: messages
    pageIsStreaming,   \* page state: isStreaming
    notifications      \* realtime INSERT payloads not yet delivered to the page

chatVars == <<pc, script, iterations, continueLoop, accumulatedText, toolUseBlocks, toolIdx,
              toolResults, outcome, events, fullResponse, citations,
              canvasContents, toolCalls, dbMessages, usageLogs, threadRow,
              threadId, persistFailed, isStreaming, stopPressed, kb,
              totalInputTokens, totalOutputTokens, modelTools>>

ctxVars == <<pcCtx, previousMessages, bodyMessage, messages, anthropicMessages>>

evalVars == <<pcEval, evalInput, initialEvaluation, evaluation, currentReport,
              optIterations, rewrites, optimized, evalOutput, ended,
              prevOptimized, prevEnded>>

\* The variables the chat request leaves alone.
orchVars == <<pcOrch, subtasks, workerIdx, workerResults, orchOutput, failedAt,
              workerResponses>>

threadVars == <<posts, messagesTable, threadsTable, overlapped>>

\* The variables of the request handling, the thread page and the reader.
roundVars == <<pcRound, rounds, assistantContent, roundBlocks, roundIdx,
               roundResults, currentMessages, nextId>>

pageVars == <<pcPage, wire, rdPos, buffer, handled, pageMessages, pageIsStreaming,
              notifications>>

laterVars == <<threadVars, roundVars, pageVars>>

otherVars == <<ctxVars, evalVars, orchVars, laterVars>>

vars == <<chatVars, otherVars>>

\* ------------------------------------------------------- tool executors
\* A tool result as the loop sees it: the `type` field ("" when the result
\* has none), the `citations` array (<<>> when absent) and the `error`
\* field ("" when absent).  threw = TRUE stands for an exception.
Result(t, c, e) == [threw |-> FALSE, type |-> t, citations |-> c, error |-> e]
Thrown == [threw |-> TRUE, type |-> "", citations |-> <<>>, error |-> "TypeError"]

\* What the retrieval collaborator does: chunks match, no chunk matches
\* (or the rpc reports an error), or a call of the try block throws.
KbStates == {"hits", "empty", "error"}

\* The catch of executeSearchDocuments rethrows.
SearchResultRethrows(k) ==
    CASE k = "hits" -> Result("", <<"doc-1">>, "")
      [] k = "empty" -> Result("", <<"demo-1">>, "")
      [] k = "error" -> Thrown

\* The three returns of executeSearchDocuments: the matching chunks with
\* their citations, or the demo result set (documentId 'demo-1') when
\* nothing matched and, from the catch, when a call threw.  None has a type.
SearchResult(k) ==
    CASE k = "hits" -> Result("", <<"doc-1">>, "")
      [] k = "empty" -> Result("", <<"demo-1">>, "")
      [] k = "error" -> Result("", <<"demo-1">>, "")

executeSearchDocuments == {SearchResult(kb)}

\* No try/catch: reading values[0] of a call without `values` throws.
executeFinancialCalculation ==
    {Result("calculation", <<>>, ""), Thrown}

executeGenerateChart == {Result("chart", <<>>, "")}

executeGenerateTable == {Result("table", <<>>, "")}

\* Wrapped in try/catch; the catch returns type 'image' too.
executeGenerateImage == {Result("image", <<>>, "")}

\* The default branch of the switch throws.
executeToolUnknownThrows(name) ==
    CASE name = "search_documents" -> executeSearchDocuments
      [] name = "financial_calculation" -> executeFinancialCalculation
      [] name = "generate_chart" -> executeGenerateChart
      [] name = "generate_table" -> executeGenerateTable
      [] name = "generate_image" -> executeGenerateImage
      [] OTHER -> {Thrown}

\* The outcomes executeTool(name, input) can have.
executeTool(name) ==
    CASE name = "search_documents" -> executeSearchDocuments
      [] name = "financial_calculation" -> executeFinancialCalculation
      [] name = "generate_chart" -> executeGenerateChart
      [] name = "generate_table" -> executeGenerateTable
      [] name = "generate_image" -> executeGenerateImage
      [] OTHER -> {Result("", <<>>, "Unknown tool: " \o name)}

\* ------------------------------------------------------ route callbacks
\* One SSE event: its name and its JSON body.  data is the text content or
\* the error message, result the tool result a tool_result, canvas or
\* citations event carries.
NoResult == Result("", <<>>, "")
\* usage is the body's usage field as <<input tokens, output tokens>>, <<>>
\* when the body has none.
NoUsage == <<>>
Ev(t, tool, data, result) ==
    [type |-> t, tool |-> tool, data |-> data, result |-> result, usage |-> NoUsage]

\* The closure state of the stream's start(controller).
Route == [events |-> events, fullResponse |-> fullResponse,
          citations |-> citations, canvasContents |-> canvasContents,
          toolCalls |-> toolCalls]

sendEvent(r, e) == [r EXCEPT !.events = Append(@, e)]

\* fullResponse = text instead of fullResponse += text.
onTextOverwrites(r, text) ==
    sendEvent([r EXCEPT !.fullResponse = <<text>>],
              Ev("text", "", text, NoResult))

onText(r, text) ==
    sendEvent([r EXCEPT !.fullResponse = Append(@, text)],
              Ev("text", "", text, NoResult))

onToolStart(r, tool) ==
    sendEvent([r EXCEPT !.toolCalls = Append(@, [name |-> tool, hasOutput |-> FALSE])],
              Ev("tool_start", tool, "", NoResult))

\* The image type is left out of the canvas check.
IsCanvasTypeNoImage(t) == t \in {"chart", "table"}

IsCanvasType(t) == t \in {"chart", "table", "image"}

onToolResult(r, tool, result) ==
    LET r1 == IF Len(r.toolCalls) > 0
              THEN [r EXCEPT !.toolCalls[Len(r.toolCalls)].hasOutput = TRUE]
              ELSE r
        r2 == sendEvent(r1, Ev("tool_result", tool, "", result))
        r3 == IF IsCanvasType(result.type)
              THEN sendEvent([r2 EXCEPT !.canvasContents = Append(@, result)],
                             Ev("canvas", "", "", result))
              ELSE r2
    IN  IF result.citations # <<>>
        THEN sendEvent([r3 EXCEPT !.citations = @ \o result.citations],
                       Ev("citations", "", "", Result("", result.citations, "")))
        ELSE r3

onError(r, message) == sendEvent(r, Ev("error", "", message, NoResult))

\* onDone: () => sendEvent('done', { threadId, sessionId }): the usage the
\* loop passes is not a parameter of the callback.
onDone(r, usage) == sendEvent(r, Ev("done", "", "", NoResult))

\* for (const char of iterationText) callbacks.onText(char)
RECURSIVE StreamText(_, _)
StreamText(r, text) ==
    IF text = <<>> THEN r ELSE StreamText(onText(r, Head(text)), Tail(text))

Commit(r) ==
    /\ events' = r.events
    /\ fullResponse' = r.fullResponse
    /\ citations' = r.citations
    /\ canvasContents' = r.canvasContents
    /\ toolCalls' = r.toolCalls

\* --------------------------------------------------------------- actions
\* The chat request after POST has inserted the user message and before
\* start(controller) runs.
ChatInitTools(scripts, kbs, threadIds, toolSets) ==
    /\ pc = "start"
    /\ modelTools \in toolSets
    /\ script \in scripts
    /\ kb \in kbs
    /\ totalInputTokens = 0
    /\ totalOutputTokens = 0
    /\ iterations = 0
    /\ continueLoop = TRUE
    /\ accumulatedText = <<>>
    /\ toolUseBlocks = <<>>
    /\ toolIdx = 0
    /\ toolResults = <<>>
    /\ outcome = "running"
    /\ events = <<>>
    /\ fullResponse = <<>>
    /\ citations = <<>>
    /\ canvasContents = <<>>
    /\ toolCalls = <<>>
    /\ threadId \in threadIds
    /\ dbMessages = <<[role |-> "user", content |-> <<"q">>,
                       citations |-> <<>>, canvas |-> NoResult, toolCalls |-> 0]>>
    /\ usageLogs = 0
    /\ threadRow = [titled |-> FALSE, touched |-> FALSE]
    /\ persistFailed = FALSE
    /\ isStreaming = TRUE
    /\ stopPressed = FALSE

\* A request whose model knows the tools of the registry.
ChatInit(scripts, kbs, threadIds) == ChatInitTools(scripts, kbs, threadIds, {ToolNames})

\* No message list is being assembled.
CtxIdle ==
    /\ pcCtx = "idle"
    /\ previousMessages = <<>>
    /\ bodyMessage = <<>>
    /\ messages = <<>>
    /\ anthropicMessages = <<>>

\* A chat request against a knowledge base without matching chunks.
NoEvaluation == [status |-> "", scores |-> <<>>]
NoOptimized == [optimizedReport |-> "", iterations |-> 0, finalScore |-> <<>>]
NoOutput == [type |-> ""]

\* No evaluate_report call is under way.
EvalIdle ==
    /\ pcEval = "idle"
    /\ evalInput = [optimize |-> FALSE, maxIterations |-> 0]
    /\ initialEvaluation = NoEvaluation
    /\ evaluation = NoEvaluation
    /\ currentReport = ""
    /\ optIterations = 0
    /\ rewrites = 0
    /\ optimized = NoOptimized
    /\ evalOutput = NoOutput
    /\ ended = ""
    /\ prevOptimized = NoOptimized
    /\ prevEnded = ""

\* No complex_analysis call is under way.
OrchIdle ==
    /\ pcOrch = "idle"
    /\ subtasks = <<>>
    /\ workerIdx = 0
    /\ workerResults = <<>>
    /\ orchOutput = NoOutput
    /\ failedAt = ""
    /\ workerResponses = <<>>

\* No request is being handled by the route.
ThreadIdle ==
    /\ posts = <<>>
    /\ messagesTable = <<>>
    /\ threadsTable = <<>>
    /\ overlapped = FALSE

\* No conversation is kept.
RoundIdle ==
    /\ pcRound = "idle"
    /\ rounds = 0
    /\ assistantContent = <<>>
    /\ roundBlocks = <<>>
    /\ roundIdx = 0
    /\ roundResults = <<>>
    /\ currentMessages = <<>>
    /\ nextId = 0

\* The page sends nothing.
PageIdle ==
    /\ pcPage = "idle"
    /\ wire = <<>>
    /\ rdPos = 0
    /\ buffer = <<>>
    /\ handled = <<>>
    /\ pageMessages = <<>>
    /\ pageIsStreaming = FALSE
    /\ notifications = <<>>

LaterIdle == ThreadIdle /\ RoundIdle /\ PageIdle

Init ==
    /\ ChatInit(0..MaxScript, {"empty"}, {"", "t1"})
    /\ CtxIdle
    /\ EvalIdle
    /\ OrchIdle
    /\ LaterIdle

\* while (continueLoop && iterations < maxIterations)
LoopGuard(cont, it) == cont /\ it < maxIterations

\* The code after `await streamFinanceChat(...)` up to its first await:
\* the assistant insert when fullResponse is non-empty, else the usage log.
AfterLoop(r) == IF r.fullResponse # <<>> THEN "saving_message" ELSE "logging_usage"

\* The text of a tool-use iteration is streamed as well.
HandleResponseStreamsEveryText(r, tools, text, usage) ==
    IF Len(tools) > 0
    THEN onToolStart(StreamText(r, text), tools[1])
    ELSE onDone(StreamText(r, text), usage)

\* The two branches taken on a model response (if toolUseBlocks.length > 0
\* ... else ...): the first tool is announced, or the text of this
\* iteration is streamed and onDone is called.
\* usage is {inputTokens: totalInputTokens, outputTokens: totalOutputTokens}.
HandleResponse(r, tools, text, usage) ==
    IF Len(tools) > 0
    THEN onToolStart(r, tools[1])
    ELSE onDone(StreamText(r, text), usage)

\* finalMessage.usage of one model call.
Usages == {[input_tokens |-> 2, output_tokens |-> 1]}

\* The responses the model gives to the call of this iteration: tool calls
\* on the first `script` rounds, none afterwards.  The last conjunct keeps
\* one tool call in reserve for every later round the script asks for.
ToolLists(n) == [1..n -> modelTools]
ModelAnswers(tools) ==
    IF iterations <= script
    THEN /\ Len(tools) >= 1
         /\ Len(toolCalls) + Len(tools) + (Min(script, maxIterations) - iterations)
               <= MaxToolCalls
    ELSE Len(tools) = 0

\* start(controller) up to the first model call.
StreamStart ==
    /\ pc = "start"
    /\ Commit(sendEvent(Route, Ev("thread", "", "", NoResult)))
    /\ LoopGuard(continueLoop, iterations)
    /\ iterations' = iterations + 1
    /\ pc' = "awaiting_model"
    /\ UNCHANGED <<script, continueLoop, accumulatedText, toolUseBlocks, toolIdx,
                   toolResults, outcome, dbMessages, usageLogs, threadRow, threadId,
                   persistFailed, isStreaming, stopPressed>>
    /\ UNCHANGED <<kb, modelTools, otherVars>>
    /\ UNCHANGED <<totalInputTokens, totalOutputTokens>>

\* The model call of this iteration returns (stream drained, finalMessage
\* read); the loop runs on to the next await.
ModelResponds ==
    /\ pc = "awaiting_model"
    /\ \E n \in 0..MaxToolsPerResponse : \E tools \in ToolLists(n) :
       \E text \in Texts : \E usage \in Usages :
        /\ ModelAnswers(tools)
        /\ totalInputTokens' = totalInputTokens + usage.input_tokens
        /\ totalOutputTokens' = totalOutputTokens + usage.output_tokens
        /\ LET r == HandleResponse(Route, tools, text,
                                   <<totalInputTokens + usage.input_tokens,
                                     totalOutputTokens + usage.output_tokens>>)
           IN  /\ Commit(r)
               /\ IF Len(tools) > 0
                  THEN /\ toolUseBlocks' = tools
                       /\ toolIdx' = 1
                       /\ pc' = "executing_tool"
                       /\ UNCHANGED <<continueLoop, accumulatedText, outcome>>
                  ELSE /\ accumulatedText' = text
                       /\ continueLoop' = FALSE
                       /\ outcome' = "done"
                       /\ pc' = AfterLoop(r)
                       /\ UNCHANGED <<toolUseBlocks, toolIdx>>
    /\ toolResults' = <<>>
    /\ UNCHANGED <<script, iterations, dbMessages, usageLogs, threadRow,
                   threadId, persistFailed, isStreaming, stopPressed>>
    /\ UNCHANGED <<kb, modelTools, otherVars>>

\* The catch swallows the exception.
CatchLoopErrorSilent(r, message) == r

\* What the catch of streamFinanceChat does with an exception.
CatchLoopError(r, message) == onError(r, message)

\* The model call throws: catch (error) { callbacks.onError(...) }.
ModelFails ==
    /\ pc = "awaiting_model"
    /\ LET r == CatchLoopError(Route, "api_error")
       IN  /\ Commit(r)
           /\ pc' = AfterLoop(r)
    /\ outcome' = "model_error"
    /\ UNCHANGED <<script, iterations, continueLoop, accumulatedText, toolUseBlocks, toolIdx,
                   toolResults, dbMessages, usageLogs, threadRow, threadId,
                   persistFailed, isStreaming, stopPressed>>
    /\ UNCHANGED <<kb, modelTools, otherVars>>
    /\ UNCHANGED <<totalInputTokens, totalOutputTokens>>

\* executeTool returns for the block at toolIdx: onToolResult, the result
\* is pushed; then the next block is started or the round is closed and the
\* while condition is evaluated again.
ToolReturns ==
    /\ pc = "executing_tool"
    /\ \E result \in executeTool(toolUseBlocks[toolIdx]) :
        /\ ~result.threw
        /\ toolResults' = Append(toolResults, [tool_use_id |-> toolIdx, content |-> result])
        /\ LET r1 == onToolResult(Route, toolUseBlocks[toolIdx], result)
           IN  IF toolIdx < Len(toolUseBlocks)
               THEN /\ Commit(onToolStart(r1, toolUseBlocks[toolIdx + 1]))
                    /\ toolIdx' = toolIdx + 1
                    /\ UNCHANGED <<pc, iterations, outcome>>
               ELSE /\ Commit(r1)
                    /\ toolIdx' = toolIdx
                    /\ IF LoopGuard(continueLoop, iterations)
                       THEN /\ iterations' = iterations + 1
                            /\ pc' = "awaiting_model"
                            /\ outcome' = outcome
                       ELSE /\ iterations' = iterations
                            /\ pc' = AfterLoop(r1)
                            /\ outcome' = "cap"
    /\ UNCHANGED <<script, continueLoop, accumulatedText, toolUseBlocks, dbMessages, usageLogs,
                   threadRow, threadId, persistFailed, isStreaming, stopPressed>>
    /\ UNCHANGED <<kb, modelTools, otherVars>>
    /\ UNCHANGED <<totalInputTokens, totalOutputTokens>>

\* The executor throws: executeTool has no try/catch, the exception reaches
\* the catch of streamFinanceChat.
ToolThrows ==
    /\ pc = "executing_tool"
    /\ \E result \in executeTool(toolUseBlocks[toolIdx]) :
        /\ result.threw
        /\ LET r == CatchLoopError(Route, result.error)
           IN  /\ Commit(r)
               /\ pc' = AfterLoop(r)
    /\ outcome' = "tool_error"
    /\ UNCHANGED <<script, iterations, continueLoop, accumulatedText, toolUseBlocks, toolIdx,
                   toolResults, dbMessages, usageLogs, threadRow, threadId,
                   persistFailed, isStreaming, stopPressed>>
    /\ UNCHANGED <<kb, modelTools, otherVars>>
    /\ UNCHANGED <<totalInputTokens, totalOutputTokens>>

\* The row of the assistant message.
AssistantRow ==
    [role |-> "assistant", content |-> fullResponse, citations |-> citations,
     canvas |-> IF Len(canvasContents) > 0
                THEN canvasContents[Len(canvasContents)] ELSE NoResult,
     toolCalls |-> Len(toolCalls)]

\* await supabase.from('messages').insert({... role: 'assistant' ...})
SaveAssistantMessage ==
    /\ pc = "saving_message"
    /\ dbMessages' = Append(dbMessages, AssistantRow)
    /\ pc' = IF threadId = "" THEN "updating_title" ELSE "updating_thread"
    /\ UNCHANGED <<script, iterations, continueLoop, accumulatedText, toolUseBlocks, toolIdx,
                   toolResults, outcome, events, fullResponse, citations,
                   canvasContents, toolCalls, usageLogs, threadRow, threadId,
                   persistFailed, isStreaming, stopPressed>>
    /\ UNCHANGED <<kb, modelTools, otherVars>>
    /\ UNCHANGED <<totalInputTokens, totalOutputTokens>>

\* if (!threadId) await ...update({ title: titleContent })
UpdateTitle ==
    /\ pc = "updating_title"
    /\ threadRow' = [threadRow EXCEPT !.titled = TRUE]
    /\ pc' = "updating_thread"
    /\ UNCHANGED <<script, iterations, continueLoop, accumulatedText, toolUseBlocks, toolIdx,
                   toolResults, outcome, events, fullResponse, citations,
                   canvasContents, toolCalls, dbMessages, usageLogs, threadId,
                   persistFailed, isStreaming, stopPressed>>
    /\ UNCHANGED <<kb, modelTools, otherVars>>
    /\ UNCHANGED <<totalInputTokens, totalOutputTokens>>

\* await ...update({ updated_at: ... })
UpdateThread ==
    /\ pc = "updating_thread"
    /\ threadRow' = [threadRow EXCEPT !.touched = TRUE]
    /\ pc' = "logging_usage"
    /\ UNCHANGED <<script, iterations, continueLoop, accumulatedText, toolUseBlocks, toolIdx,
                   toolResults, outcome, events, fullResponse, citations,
                   canvasContents, toolCalls, dbMessages, usageLogs, threadId,
                   persistFailed, isStreaming, stopPressed>>
    /\ UNCHANGED <<kb, modelTools, otherVars>>
    /\ UNCHANGED <<totalInputTokens, totalOutputTokens>>

\* await supabase.from('usage_logs').insert(...); finally controller.close()
LogUsage ==
    /\ pc = "logging_usage"
    /\ usageLogs' = usageLogs + 1
    /\ pc' = "closed"
    /\ UNCHANGED <<script, iterations, continueLoop, accumulatedText, toolUseBlocks, toolIdx,
                   toolResults, outcome, events, fullResponse, citations,
                   canvasContents, toolCalls, dbMessages, threadRow, threadId,
                   persistFailed, isStreaming, stopPressed>>
    /\ UNCHANGED <<kb, modelTools, otherVars>>
    /\ UNCHANGED <<totalInputTokens, totalOutputTokens>>

PersistencePcs == {"saving_message", "updating_title", "updating_thread", "logging_usage"}

\* catch (error) { sendEvent('error', ...) } of start(controller).
CatchStreamError(r) == sendEvent(r, Ev("error", "", "persist_error", NoResult))

\* A persistence await rejects: catch, then finally controller.close().
PersistThrows ==
    /\ pc \in PersistencePcs
    /\ Commit(CatchStreamError(Route))
    /\ persistFailed' = TRUE
    /\ pc' = "closed"
    /\ UNCHANGED <<script, iterations, continueLoop, accumulatedText, toolUseBlocks, toolIdx,
                   toolResults, outcome, dbMessages, usageLogs, threadRow,
                   threadId, isStreaming, stopPressed>>
    /\ UNCHANGED <<kb, modelTools, otherVars>>
    /\ UNCHANGED <<totalInputTokens, totalOutputTokens>>

\* Thread page, handleStop: only setIsStreaming(false).  The Stop button is
\* rendered while isStreaming; no request is sent and no fetch is aborted.
handleStop ==
    /\ isStreaming
    /\ pc # "closed"
    /\ isStreaming' = FALSE
    /\ stopPressed' = TRUE
    /\ UNCHANGED <<pc, script, iterations, continueLoop, accumulatedText, toolUseBlocks, toolIdx,
                   toolResults, outcome, events, fullResponse, citations,
                   canvasContents, toolCalls, dbMessages, usageLogs, threadRow,
                   threadId, persistFailed>>
    /\ UNCHANGED <<kb, modelTools, otherVars>>
    /\ UNCHANGED <<totalInputTokens, totalOutputTokens>>

Next ==
    \/ StreamStart
    \/ ModelResponds
    \/ ModelFails
    \/ ToolReturns
    \/ ToolThrows
    \/ SaveAssistantMessage
    \/ UpdateTitle
    \/ UpdateThread
    \/ LogUsage
    \/ PersistThrows
    \/ handleStop

Spec == Init /\ [][Next]_vars

TypeOK ==
    /\ pc \in {"start", "awaiting_model", "executing_tool", "closed"} \cup PersistencePcs
    /\ iterations \in 0..maxIterations
    /\ Len(toolCalls) <= MaxToolCalls

\* ------------------------------------------- assembly of the message list
\* A text of n characters.
Content(n) == [i \in 1..n |-> "x"]
Contents == {Content(n) : n \in 1..MaxMsgLen}
Turns == [role : {"user", "assistant"}, content : Contents]
Histories == UNION {[1..n -> Turns] : n \in 0..MaxHistory}

\* POST has accepted a request: the rows of the thread and the (non-empty)
\* message of the body.
InitContext ==
    /\ ChatInit({0}, {"empty"}, {"t1"})
    /\ pcCtx = "request"
    /\ previousMessages \in Histories
    /\ bodyMessage \in Contents
    /\ messages = <<>>
    /\ anthropicMessages = <<>>
    /\ EvalIdle
    /\ OrchIdle
    /\ LaterIdle

\* const messages = [...(previousMessages || []).map(m => ({role, content})),
\*                   { role: 'user', content: message }]
BuildMessages(loaded, msg) ==
    [i \in 1..Len(loaded) |-> [role |-> loaded[i].role, content |-> loaded[i].content]]
        \o <<[role |-> "user", content |-> msg]>>

\* messages.map((m, index) => ...): every content is passed on as it is; the
\* last message, when it is a user message, is marked for caching.
ToAnthropic(msgs) ==
    [i \in 1..Len(msgs) |->
        [role |-> IF msgs[i].role = "user" THEN "user" ELSE "assistant",
         content |-> msgs[i].content,
         cache_control |-> (msgs[i].role = "user" /\ i = Len(msgs))]]

\* The history query resolves (data is null when it failed) and the message
\* list is built.
LoadHistory ==
    /\ pcCtx = "request"
    /\ \E ok \in BOOLEAN :
          messages' = BuildMessages(IF ok THEN previousMessages ELSE <<>>, bodyMessage)
    /\ pcCtx' = "built"
    /\ UNCHANGED <<previousMessages, bodyMessage, anthropicMessages, chatVars, evalVars, orchVars, laterVars>>

\* streamFinanceChat converts the list; it is the messages parameter of the
\* first model call.
ConvertMessages ==
    /\ pcCtx = "built"
    /\ anthropicMessages' = ToAnthropic(messages)
    /\ pcCtx' = "sent"
    /\ UNCHANGED <<previousMessages, bodyMessage, messages, chatVars, evalVars, orchVars, laterVars>>

NextContext == LoadHistory \/ ConvertMessages

SpecContext == InitContext /\ [][NextContext]_vars

\* ------------------------------------------------------- evaluate_report
\* Criterion scores the model writes in its <scores> block.
ScenarioScores == [accuracy |-> 8, completeness |-> 5, clarity |-> 9, actionability |-> 6]
ScoreVectors == {ScenarioScores,
                 [accuracy |-> 8, completeness |-> 7, clarity |-> 9, actionability |-> 7],
                 [accuracy |-> 8, completeness |-> 3, clarity |-> 9, actionability |-> 6]}
\* The <scores> block of a response: JSON of a score vector, or text that
\* JSON.parse rejects (the block is missing or malformed).
ScoresBlocks == {[json |-> TRUE, value |-> v] : v \in ScoreVectors}
                    \cup {[json |-> FALSE, value |-> <<>>]}
\* The trimmed <evaluation> block of a response ("" when it is missing).
EvaluationBlocks == {"PASS", "NEEDS_IMPROVEMENT", "FAIL", ""}
EvaluationResponses == [scores : ScoresBlocks, evaluation : EvaluationBlocks]
\* The <improved_report> block of a response ("" when it is missing).
ImprovedBlocks == {"", "improved"}

\* try { scores = JSON.parse(scoresJson) } catch { scores = { overall: 5 } }
ParseScores(block) == IF block.json THEN block.value ELSE [overall |-> 5]

\* ReportEvaluator.evaluate, from the model's response on.
evaluate(response) ==
    [status |-> response.evaluation, scores |-> ParseScores(response.scores)]

\* input.maxIterations || 3
DefaultMaxIterations == 3
EffectiveMax(input) ==
    IF input.maxIterations = 0 THEN DefaultMaxIterations ELSE input.maxIterations

\* while (iterations < maxIterations)
OptimizeLoopGuardInclusive(it, max) == it <= max
OptimizeLoopGuard(it, max) == it < max

\* The value optimize returns.
OptimizeReturn(rep, it, ev) ==
    [optimizedReport |-> rep, iterations |-> it, finalScore |-> ev.scores]

\* The result of executeEvaluateReport after an optimization.
OptimizedOutput(initial, opt) ==
    [type |-> "evaluation",
     data |-> [initialStatus |-> initial.status, initialScores |-> initial.scores,
               optimizedReport |-> opt.optimizedReport,
               finalScores |-> opt.finalScore, iterations |-> opt.iterations]]

\* The result of executeEvaluateReport without optimization.
PlainOutput(ev) ==
    [type |-> "evaluation", data |-> [status |-> ev.status, scores |-> ev.scores]]

\* The model has called evaluate_report: the first evaluation is awaited.
InitEval ==
    /\ ChatInit({0}, {"empty"}, {"t1"})
    /\ CtxIdle
    /\ OrchIdle
    /\ LaterIdle
    /\ pcEval = "initial_eval"
    /\ evalInput \in [optimize : BOOLEAN, maxIterations : 0..MaxEvalIterations]
    /\ initialEvaluation = NoEvaluation
    /\ evaluation = NoEvaluation
    /\ currentReport = "draft"
    /\ optIterations = 0
    /\ rewrites = 0
    /\ optimized = NoOptimized
    /\ evalOutput = NoOutput
    /\ ended = ""
    /\ prevOptimized = NoOptimized
    /\ prevEnded = ""

\* The head of optimize's loop, reached with `it` iterations done: either
\* the next iteration starts and awaits its evaluation, or the final
\* evaluation is awaited.
LoopHead(it) ==
    IF OptimizeLoopGuard(it, EffectiveMax(evalInput))
    THEN /\ optIterations' = it + 1
         /\ pcEval' = "opt_eval"
    ELSE /\ optIterations' = it
         /\ pcEval' = "final_eval"

\* The first evaluation resolves: executeEvaluateReport returns it, or calls
\* optimize, which runs up to its first await.
InitialEvaluated ==
    /\ pcEval = "initial_eval"
    /\ \E response \in EvaluationResponses :
          LET ev == evaluate(response) IN
          /\ initialEvaluation' = ev
          /\ IF evalInput.optimize /\ ev.status # "PASS"
             THEN /\ LoopHead(0)
                  /\ UNCHANGED evalOutput
             ELSE /\ pcEval' = "returned"
                  /\ evalOutput' = PlainOutput(ev)
                  /\ UNCHANGED optIterations
    /\ UNCHANGED <<evalInput, evaluation, currentReport, rewrites, optimized,
                   ended, prevOptimized, prevEnded, chatVars, ctxVars, orchVars, laterVars>>

\* The evaluation of an iteration resolves: on PASS optimize returns, else
\* the improvement is requested.
IterationEvaluated ==
    /\ pcEval = "opt_eval"
    /\ \E response \in EvaluationResponses :
          LET ev == evaluate(response) IN
          /\ evaluation' = ev
          /\ IF ev.status = "PASS"
             THEN /\ optimized' = OptimizeReturn(currentReport, optIterations, ev)
                  /\ evalOutput' = OptimizedOutput(initialEvaluation, optimized')
                  /\ ended' = "passed"
                  /\ pcEval' = "returned"
             ELSE /\ pcEval' = "opt_improve"
                  /\ UNCHANGED <<optimized, evalOutput, ended>>
    /\ UNCHANGED <<evalInput, initialEvaluation, currentReport, optIterations,
                   rewrites, prevOptimized, prevEnded, chatVars, ctxVars, orchVars, laterVars>>

\* The improvement resolves:
\* currentReport = extractXml(response, 'improved_report') || currentReport
Improved ==
    /\ pcEval = "opt_improve"
    /\ \E block \in ImprovedBlocks :
          currentReport' = IF block # "" THEN block ELSE currentReport
    /\ rewrites' = rewrites + 1
    /\ LoopHead(optIterations)
    /\ UNCHANGED <<evalInput, initialEvaluation, evaluation, optimized, evalOutput,
                   ended, prevOptimized, prevEnded, chatVars, ctxVars, orchVars, laterVars>>

\* The final evaluation resolves and optimize returns.
FinalEvaluated ==
    /\ pcEval = "final_eval"
    /\ \E response \in EvaluationResponses :
          LET ev == evaluate(response) IN
          /\ evaluation' = ev
          /\ optimized' = OptimizeReturn(currentReport, optIterations, ev)
          /\ evalOutput' = OptimizedOutput(initialEvaluation, optimized')
          /\ ended' = IF ev.status = "PASS" THEN "passed" ELSE "gave_up"
    /\ pcEval' = "returned"
    /\ UNCHANGED <<evalInput, initialEvaluation, currentReport, optIterations,
                   rewrites, prevOptimized, prevEnded, chatVars, ctxVars, orchVars, laterVars>>

\* A model call of the evaluation rejects: the catch of
\* executeEvaluateReport returns an error result.
EvalCallFails ==
    /\ pcEval \in {"initial_eval", "opt_eval", "opt_improve", "final_eval"}
    /\ pcEval' = "error"
    /\ evalOutput' = [type |-> "error"]
    /\ UNCHANGED <<evalInput, initialEvaluation, evaluation, currentReport,
                   optIterations, rewrites, optimized, ended, prevOptimized,
                   prevEnded, chatVars, ctxVars, orchVars, laterVars>>

\* The caller keeps what optimize returned and calls the tool again with the
\* same input.
InvokeAgain ==
    /\ pcEval = "returned"
    /\ ended # ""
    /\ prevEnded = ""
    /\ prevOptimized' = optimized
    /\ prevEnded' = ended
    /\ pcEval' = "initial_eval"
    /\ initialEvaluation' = NoEvaluation
    /\ evaluation' = NoEvaluation
    /\ currentReport' = "draft"
    /\ optIterations' = 0
    /\ rewrites' = 0
    /\ optimized' = NoOptimized
    /\ evalOutput' = NoOutput
    /\ ended' = ""
    /\ UNCHANGED <<evalInput, chatVars, ctxVars, orchVars, laterVars>>

NextEval ==
    \/ InitialEvaluated
    \/ IterationEvaluated
    \/ Improved
    \/ FinalEvaluated
    \/ EvalCallFails
    \/ InvokeAgain

SpecEval == InitEval /\ [][NextEval]_vars

\* ------------------------------------------------------ complex_analysis
\* A <task> block of the decomposition response: its <type> ("" when the
\* block has no <type> or no <description> tag) and the text of its
\* <priority> tag ("" when absent).
FinancialTaskType == {"variance_analysis", "trend_analysis", "ratio_analysis",
                      "comparison", "forecast", "risk_assessment", "executive_summary"}
TaskTypes == {"variance_analysis", "trend_analysis", "tax_advice"}
TaskBlocks == [type : TaskTypes \cup {""}, priority : {"", "1", "2"}]
TaskLists == UNION {[1..n -> TaskBlocks] : n \in 0..MaxSubTasks}

\* priorityMatch ? parseInt(priorityMatch[1].trim()) : 1
ParsePriority(text) == IF text = "2" THEN 2 ELSE 1

\* tasks.sort((a, b) => a.priority - b.priority): the sort is stable.
RECURSIVE InsertByPriority(_, _)
InsertByPriority(sorted, t) ==
    IF sorted = <<>> THEN <<t>>
    ELSE IF sorted[Len(sorted)].priority <= t.priority THEN Append(sorted, t)
    ELSE Append(InsertByPriority(SubSeq(sorted, 1, Len(sorted) - 1), t),
                sorted[Len(sorted)])

RECURSIVE SortByPriority(_)
SortByPriority(tasks) ==
    IF tasks = <<>> THEN <<>>
    ELSE InsertByPriority(SortByPriority(SubSeq(tasks, 1, Len(tasks) - 1)),
                          tasks[Len(tasks)])

\* The blocks with both tags become SubTasks, in the order of the response.
RECURSIVE CompleteTasks(_)
CompleteTasks(blocks) ==
    IF blocks = <<>> THEN <<>>
    ELSE (IF Head(blocks).type # ""
          THEN <<[type |-> Head(blocks).type,
                  priority |-> ParsePriority(Head(blocks).priority)]>>
          ELSE <<>>) \o CompleteTasks(Tail(blocks))

parseTasksXml(blocks) == SortByPriority(CompleteTasks(blocks))

\* The model has called complex_analysis: the decomposition is awaited.
InitOrch ==
    /\ ChatInit({0}, {"empty"}, {"t1"})
    /\ CtxIdle
    /\ EvalIdle
    /\ pcOrch = "decompose"
    /\ subtasks = <<>>
    /\ workerIdx = 0
    /\ workerResults = <<>>
    /\ orchOutput = NoOutput
    /\ failedAt = ""
    /\ workerResponses = <<>>
    /\ LaterIdle

\* The head of the for loop over subtasks with `done` results collected: the
\* next worker call is made, or the synthesis call.
NextCall(tasks, done) ==
    IF done < Len(tasks)
    THEN /\ workerIdx' = done + 1
         /\ pcOrch' = "worker"
    ELSE /\ workerIdx' = workerIdx
         /\ pcOrch' = "synthesis"

\* The decomposition call resolves.
Decomposed ==
    /\ pcOrch = "decompose"
    /\ \E blocks \in TaskLists :
          /\ subtasks' = parseTasksXml(blocks)
          /\ NextCall(subtasks', 0)
    /\ UNCHANGED <<workerResults, orchOutput, failedAt, workerResponses,
                   chatVars, ctxVars, evalVars, laterVars>>

\* A response text as its pieces in order: a tagged block with its trimmed
\* body, or text outside of any block (tag "").
Piece(tag, body) == [tag |-> tag, body |-> body]
WorkerResponses ==
    {<<Piece("analysis", "findings"), Piece("recommendation", "advice")>>,
     <<Piece("", "findings in plain text"), Piece("recommendation", "advice")>>,
     <<Piece("", "findings in plain text")>>}

\* extractXml(content, tag): the body of the first block with the tag, ''
\* when there is none.
extractXml(content, tag) ==
    LET hits == SelectSeq(content, LAMBDA piece : piece.tag = tag)
    IN  IF hits = <<>> THEN "" ELSE hits[1].body

\* `${analysisContent}\n\nRecommendation: ${recommendation}`
WorkerResultText(response) ==
    <<extractXml(response, "analysis"), "\n\nRecommendation: ",
      extractXml(response, "recommendation")>>

\* A worker call resolves: its result is pushed with the subtask's type.
WorkerAnswers ==
    /\ pcOrch = "worker"
    /\ \E response \in WorkerResponses :
          /\ workerResults' = Append(workerResults,
                 [type |-> subtasks[workerIdx].type, result |-> WorkerResultText(response)])
          /\ workerResponses' = Append(workerResponses, response)
    /\ NextCall(subtasks, Len(workerResults'))
    /\ UNCHANGED <<subtasks, orchOutput, failedAt, chatVars, ctxVars, evalVars, laterVars>>

\* The synthesis call resolves: analyze returns and executeComplexAnalysis
\* maps the worker results into its result.
Synthesized ==
    /\ pcOrch = "synthesis"
    /\ pcOrch' = "returned"
    /\ orchOutput' = [type |-> "analysis",
                      workerResults |-> [i \in 1..Len(workerResults) |->
                          [type |-> workerResults[i].type,
                           findings |-> workerResults[i].result]]]
    /\ UNCHANGED <<subtasks, workerIdx, workerResults, failedAt, workerResponses,
                   chatVars, ctxVars, evalVars, laterVars>>

\* A model call of analyze rejects: nothing in analyze catches it, the catch
\* of executeComplexAnalysis returns an error result.
OrchCallFails ==
    /\ pcOrch \in {"decompose", "worker", "synthesis"}
    /\ failedAt' = pcOrch
    /\ pcOrch' = "failed"
    /\ orchOutput' = [type |-> "error"]
    /\ UNCHANGED <<subtasks, workerIdx, workerResults, workerResponses,
                   chatVars, ctxVars, evalVars, laterVars>>

NextOrch ==
    \/ Decomposed
    \/ WorkerAnswers
    \/ Synthesized
    \/ OrchCallFails

SpecOrch == InitOrch /\ [][NextOrch]_vars

\* ----------------------------------------------- retrieval in the chat loop
\* Chat requests whose model asks for tools on the first one or two rounds
\* and whose retrieval collaborator finds chunks, finds none, or fails.
InitRetrieval ==
    /\ ChatInit(1..2, KbStates, {"", "t1"})
    /\ CtxIdle
    /\ EvalIdle
    /\ OrchIdle
    /\ LaterIdle

SpecRetrieval == InitRetrieval /\ [][Next]_vars

\* ------------------------------------------------ POST /api/chat requests
coreVars == <<chatVars, ctxVars, evalVars, orchVars>>

Posts == 1..MaxPosts

\* The message field of a request body by its JavaScript type and value
\* (written as text); "undefined" when the field is missing.
BodyMessages == {[type |-> "undefined", value |-> ""],
                 [type |-> "number", value |-> "5"],
                 [type |-> "string", value |-> ""],
                 [type |-> "string", value |-> "hi"]}

\* !message
Falsy(m) == m.type = "undefined" \/ m.value \in {"", "0"}

\* if (!message || typeof message !== 'string')
MessageRejectedOnlyFalsy(m) == Falsy(m)
MessageRejected(m) == Falsy(m) \/ m.type # "string"

\* The id the threads insert gives the thread of request r.
NewThreadId(r) == IF r = 1 THEN "n1" ELSE IF r = 2 THEN "n2" ELSE "n3"

\* select('role, content').eq('thread_id', id).order('created_at')
ThreadHistory(id) == SelectSeq(messagesTable, LAMBDA row : row.thread_id = id)

\* A request is between its first step and its response or the close of its
\* stream.
UnderWay(r) == posts[r].pc \notin {"received", "responded", "closed"}

\* The requests have passed the user and profile checks; their bodies are
\* about to be parsed.
InitThread ==
    /\ ChatInit({0}, {"empty"}, {"t1"})
    /\ CtxIdle
    /\ EvalIdle
    /\ OrchIdle
    /\ posts \in [Posts -> [pc : {"received"}, message : BodyMessages,
                           threadId : {"", "t1"}, currentThreadId : {""},
                           previousMessages : {<<>>}, fullResponse : {<<>>},
                           status : {0}, sentThread : {FALSE}]]
    /\ messagesTable = <<>>
    /\ threadsTable = <<>>
    /\ overlapped = FALSE
    /\ RoundIdle
    /\ PageIdle

\* The body is parsed: 400 for a missing or non-string message, else the
\* thread insert or the history query is issued.
ParseBody(r) ==
    /\ posts[r].pc = "received"
    /\ posts' = [posts EXCEPT ![r] =
          IF MessageRejected(posts[r].message)
          THEN [posts[r] EXCEPT !.pc = "responded", !.status = 400]
          ELSE IF posts[r].threadId = ""
               THEN [posts[r] EXCEPT !.pc = "creating_thread"]
               ELSE [posts[r] EXCEPT !.pc = "loading_history",
                                     !.currentThreadId = posts[r].threadId]]
    /\ overlapped' = (overlapped \/ \E q \in Posts \ {r} : UnderWay(q))
    /\ UNCHANGED <<messagesTable, threadsTable, coreVars, roundVars, pageVars>>

\* The threads insert resolves: with the new row, or with an error (500).
ThreadCreated(r) ==
    /\ posts[r].pc = "creating_thread"
    /\ \E ok \in BOOLEAN :
          IF ok
          THEN /\ threadsTable' = Append(threadsTable, NewThreadId(r))
               /\ posts' = [posts EXCEPT ![r].pc = "loading_history",
                                         ![r].currentThreadId = NewThreadId(r)]
          ELSE /\ threadsTable' = threadsTable
               /\ posts' = [posts EXCEPT ![r].pc = "responded", ![r].status = 500]
    /\ UNCHANGED <<messagesTable, overlapped, coreVars, roundVars, pageVars>>

\* The history query resolves (data is null when it failed); the user
\* message insert is issued.
HistoryLoaded(r) ==
    /\ posts[r].pc = "loading_history"
    /\ \E ok \in BOOLEAN :
          posts' = [posts EXCEPT
              ![r].previousMessages =
                  IF ok THEN ThreadHistory(posts[r].currentThreadId) ELSE <<>>,
              ![r].pc = "saving_user"]
    /\ UNCHANGED <<messagesTable, threadsTable, overlapped, coreVars, roundVars, pageVars>>

\* The user message insert resolves; the streaming response is returned, its
\* start() sends the thread event and calls streamFinanceChat.
UserMessageSaved(r) ==
    /\ posts[r].pc = "saving_user"
    /\ messagesTable' = Append(messagesTable,
          [thread_id |-> posts[r].currentThreadId, role |-> "user", post |-> r])
    /\ posts' = [posts EXCEPT ![r].pc = "streaming", ![r].status = 200,
                              ![r].sentThread = TRUE]
    /\ UNCHANGED <<threadsTable, overlapped, coreVars, roundVars, pageVars>>

\* streamFinanceChat returns, with the text onText has accumulated: none
\* after a failure, the iteration cap or an empty answer.
LoopReturns(r) ==
    /\ posts[r].pc = "streaming"
    /\ \E text \in Texts :
          posts' = [posts EXCEPT ![r].fullResponse = text,
                                 ![r].pc = AfterLoop([fullResponse |-> text])]
    /\ UNCHANGED <<messagesTable, threadsTable, overlapped, coreVars, roundVars, pageVars>>

\* if (fullResponse): the assistant message insert resolves.  The updates
\* of the threads row that follow do not touch the messages table.
AssistantMessageSaved(r) ==
    /\ posts[r].pc = "saving_message"
    /\ messagesTable' = Append(messagesTable,
          [thread_id |-> posts[r].currentThreadId, role |-> "assistant", post |-> r])
    /\ posts' = [posts EXCEPT ![r].pc = "logging_usage"]
    /\ UNCHANGED <<threadsTable, overlapped, coreVars, roundVars, pageVars>>

\* The usage log insert resolves and the stream is closed.
StreamClosed(r) ==
    /\ posts[r].pc = "logging_usage"
    /\ posts' = [posts EXCEPT ![r].pc = "closed"]
    /\ UNCHANGED <<messagesTable, threadsTable, overlapped, coreVars, roundVars, pageVars>>

NextThread ==
    \E r \in Posts :
        \/ ParseBody(r)
        \/ ThreadCreated(r)
        \/ HistoryLoaded(r)
        \/ UserMessageSaved(r)
        \/ LoopReturns(r)
        \/ AssistantMessageSaved(r)
        \/ StreamClosed(r)

SpecThread == InitThread /\ [][NextThread]_vars

\* ------------------------------------------- unknown tools in the chat loop
\* The names of the switch of executeTool.
RegisteredTools == {"search_documents", "financial_calculation", "generate_chart",
                    "generate_table", "spreadsheet_operation", "generate_image",
                    "complex_analysis", "evaluate_report", "analyze_document",
                    "export_file"}

\* Chat requests whose model asks, on the first one or two rounds, for
\* financial_calculation or for a tool the switch does not know.
InitUnknownTool ==
    /\ ChatInitTools(1..2, {"empty"}, {"", "t1"}, {{"financial_calculation", "send_email"}})
    /\ CtxIdle
    /\ EvalIdle
    /\ OrchIdle
    /\ LaterIdle

SpecUnknownTool == InitUnknownTool /\ [][Next]_vars

\* ---------------------------------------- the conversation kept for the model
\* The content of a model response: text blocks and tool_use blocks; the
\* tool_use blocks get ids not used before, in the order of the response.
BlockKinds == {"text", "search_documents", "generate_chart"}
ContentShapes == UNION {[1..n -> BlockKinds] : n \in 1..MaxContentBlocks}

Block(kind, id) ==
    IF kind = "text" THEN [type |-> "text", id |-> 0, name |-> ""]
    ELSE [type |-> "tool_use", id |-> id, name |-> kind]

\* assistantContent.filter(block => block.type === 'tool_use')
ToolUseBlocks(content) == SelectSeq(content, LAMBDA b : b.type = "tool_use")

\* JSON.stringify(result) of the result executeTool returns for the block.
ResultText(block) == <<"result of", block.name, block.id>>

\* The result is filed under the id of the first block of the response.
ToolResultBlockFirstId(blocks, i) ==
    [type |-> "tool_result", tool_use_id |-> blocks[1].id,
     content |-> ResultText(blocks[i])]

\* toolResults.push({ type: 'tool_result', tool_use_id: toolUse.id, content })
ToolResultBlock(blocks, i) ==
    [type |-> "tool_result", tool_use_id |-> blocks[i].id,
     content |-> ResultText(blocks[i])]

\* The first model call of streamFinanceChat is awaited.
InitRound ==
    /\ ChatInit({0}, {"empty"}, {"t1"})
    /\ CtxIdle
    /\ EvalIdle
    /\ OrchIdle
    /\ ThreadIdle
    /\ PageIdle
    /\ pcRound = "awaiting_model"
    /\ rounds = 1
    /\ assistantContent = <<>>
    /\ roundBlocks = <<>>
    /\ roundIdx = 0
    /\ roundResults = <<>>
    /\ currentMessages = <<>>
    /\ nextId = 0

\* The model call returns.  With tool_use blocks the first one is executed,
\* else the loop ends.  At most MaxRounds responses carry tool_use blocks.
RoundModelResponds ==
    /\ pcRound = "awaiting_model"
    /\ \E shape \in ContentShapes :
          LET content == [i \in DOMAIN shape |-> Block(shape[i], nextId + i)]
              blocks == ToolUseBlocks(content)
          IN  /\ blocks # <<>> => rounds <= MaxRounds
              /\ assistantContent' = content
              /\ roundBlocks' = blocks
              /\ nextId' = nextId + Len(shape)
              /\ IF Len(blocks) > 0
                 THEN /\ roundIdx' = 1
                      /\ pcRound' = "executing_tool"
                 ELSE /\ roundIdx' = 0
                      /\ pcRound' = "returned"
    /\ roundResults' = <<>>
    /\ UNCHANGED <<rounds, currentMessages, coreVars, threadVars, pageVars>>

\* executeTool returns for the block at roundIdx: its result is pushed; after
\* the last block the assistant turn and the turn of the results are
\* appended and the while condition is evaluated again.
RoundToolReturns ==
    /\ pcRound = "executing_tool"
    /\ roundResults' = Append(roundResults, ToolResultBlock(roundBlocks, roundIdx))
    /\ IF roundIdx < Len(roundBlocks)
       THEN /\ roundIdx' = roundIdx + 1
            /\ UNCHANGED <<pcRound, rounds, currentMessages>>
       ELSE /\ roundIdx' = roundIdx
            /\ currentMessages' = currentMessages \o
                   <<[role |-> "assistant", content |-> assistantContent],
                     [role |-> "user", content |-> roundResults']>>
            /\ IF LoopGuard(TRUE, rounds)
               THEN /\ rounds' = rounds + 1
                    /\ pcRound' = "awaiting_model"
               ELSE /\ rounds' = rounds
                    /\ pcRound' = "returned"
    /\ UNCHANGED <<assistantContent, roundBlocks, nextId, coreVars, threadVars, pageVars>>

\* The model call or executeTool throws: the catch reports the error and
\* streamFinanceChat returns.
RoundFails ==
    /\ pcRound \in {"awaiting_model", "executing_tool"}
    /\ pcRound' = "failed"
    /\ UNCHANGED <<rounds, assistantContent, roundBlocks, roundIdx, roundResults,
                   currentMessages, nextId, coreVars, threadVars, pageVars>>

NextRound == RoundModelResponds \/ RoundToolReturns \/ RoundFails

SpecRound == InitRound /\ [][NextRound]_vars

\* ------------------------------------------------------- the thread page
\* The event sequences the route writes for an accepted request: a normal
\* run with two text events, a failed run, and a run closed at the iteration
\* cap without terminal event.
SseEvent(t, d) == [type |-> t, data |-> d]
ServerStreams ==
    {<<SseEvent("thread", "t1"), SseEvent("text", "a"), SseEvent("text", "b"),
       SseEvent("done", "t1")>>,
     <<SseEvent("thread", "t1"), SseEvent("error", "api_error")>>,
     <<SseEvent("thread", "t1")>>}

\* sendEvent: `event: ${event}\ndata: ${JSON.stringify(data)}\n\n`, as
\* characters: "e" and "d" stand for the prefixes "event: " and "data: ".
NL == "\n"
Encode(ev) == <<"e", ev.type, NL, "d", ev.data, NL, NL>>

RECURSIVE EncodeAll(_)
EncodeAll(evs) == IF evs = <<>> THEN <<>> ELSE Encode(Head(evs)) \o EncodeAll(Tail(evs))

\* buffer.split('\n')
RECURSIVE Split(_)
Split(text) ==
    IF \A i \in DOMAIN text : text[i] # NL THEN <<text>>
    ELSE LET k == CHOOSE i \in DOMAIN text :
                     text[i] = NL /\ \A j \in 1..(i - 1) : text[j] # NL
         IN  <<SubSeq(text, 1, k - 1)>> \o Split(SubSeq(text, k + 1, Len(text)))

\* line.startsWith('event: '), dataLine?.startsWith('data: ')
IsEventLine(line) == Len(line) >= 1 /\ line[1] = "e"
IsDataLine(line) == Len(line) >= 1 /\ line[1] = "d"

\* A message of the page's list.  Rows delivered by the realtime channel
\* have no isStreaming and no streamingContent field (FALSE and <<>> here).
PageMessage(id, role, content, streaming) ==
    [id |-> id, role |-> role, content |-> content,
     streamingContent |-> <<>>, isStreaming |-> streaming]

\* idx === prev.length - 1 && msg.role === 'assistant'
IsLastAssistant(prev, idx) == idx = Len(prev) /\ prev[idx].role = "assistant"

\* The switch on the event name: 'text' and 'done' map the list and update
\* the last message when it is an assistant message.
HandleEvent(prev, ev) ==
    CASE ev.type = "text" ->
            [idx \in DOMAIN prev |->
                IF IsLastAssistant(prev, idx)
                THEN [prev[idx] EXCEPT !.streamingContent = Append(@, ev.data)]
                ELSE prev[idx]]
      [] ev.type = "done" ->
            [idx \in DOMAIN prev |->
                IF IsLastAssistant(prev, idx)
                THEN [prev[idx] EXCEPT !.content = prev[idx].streamingContent,
                                       !.isStreaming = FALSE]
                ELSE prev[idx]]
      [] OTHER -> prev

\* The for loop over the complete lines of the buffer, from line i on.
RECURSIVE ProcessLines(_, _, _, _)
ProcessLines(lines, i, msgs, seen) ==
    IF i > Len(lines) THEN [messages |-> msgs, handled |-> seen]
    ELSE IF IsEventLine(lines[i]) /\ i + 1 <= Len(lines) /\ IsDataLine(lines[i + 1])
         THEN LET ev == SseEvent(lines[i][2], lines[i + 1][2])
              IN  ProcessLines(lines, i + 2, HandleEvent(msgs, ev), Append(seen, ev))
         ELSE ProcessLines(lines, i + 1, msgs, seen)

\* handleSend has added the user message and the placeholder and awaits the
\* fetch.  The route has inserted the user row; it inserts the assistant row
\* for a run that streamed text.  A request the route rejects writes nothing.
InitPage ==
    /\ ChatInit({0}, {"empty"}, {"t1"})
    /\ CtxIdle
    /\ EvalIdle
    /\ OrchIdle
    /\ ThreadIdle
    /\ RoundIdle
    /\ pcPage = "fetching"
    /\ \E stream \in ServerStreams \cup {<<>>} :
          /\ wire = EncodeAll(stream)
          /\ notifications =
                IF stream = <<>> THEN <<>>
                ELSE <<PageMessage("row-1", "user", <<"q">>, FALSE)>> \o
                     (IF \E i \in DOMAIN stream : stream[i].type = "text"
                      THEN <<PageMessage("row-2", "assistant", <<"a", "b">>, FALSE)>>
                      ELSE <<>>)
    /\ rdPos = 0
    /\ buffer = <<>>
    /\ handled = <<>>
    /\ pageMessages = <<PageMessage("local-1", "user", <<"q">>, FALSE),
                        PageMessage("local-2", "assistant", <<>>, TRUE)>>
    /\ pageIsStreaming = TRUE

\* The fetch resolves with a streaming response.
FetchResolves ==
    /\ pcPage = "fetching"
    /\ wire # <<>>
    /\ pcPage' = "reading"
    /\ UNCHANGED <<wire, rdPos, buffer, handled, pageMessages, pageIsStreaming,
                   notifications, coreVars, threadVars, roundVars>>

\* The fetch resolves with !response.ok: the throw reaches the catch, which
\* removes the last message; finally.
FetchRejected ==
    /\ pcPage = "fetching"
    /\ wire = <<>>
    /\ pageMessages' = SubSeq(pageMessages, 1, Len(pageMessages) - 1)
    /\ pageIsStreaming' = FALSE
    /\ pcPage' = "ended"
    /\ UNCHANGED <<wire, rdPos, buffer, handled, notifications,
                   coreVars, threadVars, roundVars>>

\* reader.read() delivers the next n characters: they are appended to the
\* buffer, the complete lines are processed, the last piece is kept.
ReadChunk ==
    /\ pcPage = "reading"
    /\ rdPos < Len(wire)
    /\ \E n \in 1..MaxChunk :
          /\ rdPos + n <= Len(wire)
          /\ LET lines == Split(buffer \o SubSeq(wire, rdPos + 1, rdPos + n))
                 after == ProcessLines(SubSeq(lines, 1, Len(lines) - 1), 1,
                                       pageMessages, handled)
             IN  /\ buffer' = lines[Len(lines)]
                 /\ pageMessages' = after.messages
                 /\ handled' = after.handled
          /\ rdPos' = rdPos + n
    /\ UNCHANGED <<pcPage, wire, pageIsStreaming, notifications,
                   coreVars, threadVars, roundVars>>

\* reader.read() reports done: the loop is left; finally.
StreamEnds ==
    /\ pcPage = "reading"
    /\ rdPos = Len(wire)
    /\ pageIsStreaming' = FALSE
    /\ pcPage' = "ended"
    /\ UNCHANGED <<wire, rdPos, buffer, handled, pageMessages, notifications,
                   coreVars, threadVars, roundVars>>

\* The realtime channel delivers an INSERT: the row is appended unless a
\* message with its id is in the list.
RealtimeInsert ==
    /\ notifications # <<>>
    /\ pageMessages' =
          IF \E i \in DOMAIN pageMessages : pageMessages[i].id = Head(notifications).id
          THEN pageMessages
          ELSE Append(pageMessages, Head(notifications))
    /\ notifications' = Tail(notifications)
    /\ UNCHANGED <<pcPage, wire, rdPos, buffer, handled, pageIsStreaming,
                   coreVars, threadVars, roundVars>>

NextPage ==
    \/ FetchResolves
    \/ FetchRejected
    \/ ReadChunk
    \/ StreamEnds
    \/ RealtimeInsert

SpecPage == InitPage /\ [][NextPage]_vars

\* ---------------------------------------------------------------- claims
HasEvent(t) == \E i \in DOMAIN events : events[i].type = t
TerminalPositions == {i \in DOMAIN events : events[i].type \in {"done", "error"}}
AssistantRows == {i \in DOMAIN dbMessages : dbMessages[i].role = "assistant"}
ToolEventTypes == {"tool_start", "tool_result", "citations", "canvas"}

\* The content of the text events, concatenated in emission order.
RECURSIVE TextOf(_)
TextOf(evs) ==
    IF evs = <<>> THEN <<>>
    ELSE IF Head(evs).type = "text"
         THEN <<Head(evs).data>> \o TextOf(Tail(evs))
         ELSE TextOf(Tail(evs))

\* C1: a run that received tool calls on every one of the maxIterations
\* rounds has surfaced an error event and no done event.
C1_CapSurfacesError ==
    outcome = "cap" => (HasEvent("error") /\ ~HasEvent("done"))

\* C2: a run in which the model answers with tool calls on the first N <=
\* maxIterations rounds and without tool calls afterwards, and in which no
\* model call, executor or persistence step throws, is closed with a done
\* event as its only terminal event.
C2_ToolRoundsThenAnswerIsDone ==
    (/\ pc = "closed"
     /\ script <= maxIterations
     /\ outcome \notin {"model_error", "tool_error"}
     /\ ~persistFailed)
    => (HasEvent("done") /\ Cardinality(TerminalPositions) = 1)

\* C3: a closed stream carries exactly one terminal event (done or error)
\* and that event is the last one of the stream.
C3_ExactlyOneTerminalEvent ==
    pc = "closed" => TerminalPositions = {Len(events)}

\* C4: an exception of a tool executor never terminates the loop and never
\* becomes an error event of the stream; it is the error payload of a
\* tool_result event.
C4_ToolExceptionCaptured ==
    /\ outcome # "tool_error"
    /\ \A i \in DOMAIN events : events[i].type = "error" => events[i].data # Thrown.error

\* C5: once a model call has failed, the stream carries an error event and
\* no done event, and the loop awaits no model call and no tool any more.
C5_ModelFailureIsTerminal ==
    outcome = "model_error"
    => /\ HasEvent("error")
       /\ ~HasEvent("done")
       /\ pc \notin {"awaiting_model", "executing_tool"}

\* C5 witness: a model call failed in a later iteration, after tool rounds.
C5_Witness ==
    outcome = "model_error" /\ pc = "closed" /\ iterations >= 2 /\ Len(toolCalls) >= 2

\* C6: when the loop failed (model-call error or iteration cap) after tool
\* calls had produced citations or canvas artifacts and no persistence step
\* threw, the closed request has stored them in an assistant row.
C6_FailureKeepsSideArtifacts ==
    (/\ pc = "closed"
     /\ outcome \in {"model_error", "cap"}
     /\ ~persistFailed
     /\ (citations # <<>> \/ canvasContents # <<>>))
    => \E i \in AssistantRows :
          /\ dbMessages[i].citations = citations
          /\ dbMessages[i].canvas = canvasContents[Len(canvasContents)]

\* C7: the stream of a normal run is: the thread event; then only
\* tool_start / tool_result / citations / canvas events; then the text
\* events, spelling the text of the final iteration; then done.
C7_NormalRunOrder ==
    (outcome = "done" /\ ~persistFailed)
    => LET n == Len(events)
           k == Len(accumulatedText)
       IN  /\ n >= k + 2
           /\ events[1].type = "thread"
           /\ \A i \in 2..(n - k - 1) : events[i].type \in ToolEventTypes
           /\ \A i \in 1..k : /\ events[n - k - 1 + i].type = "text"
                              /\ events[n - k - 1 + i].data = accumulatedText[i]
           /\ events[n].type = "done"

\* C7 witness: a closed normal run with two tool rounds, a canvas and a
\* citations event and a final text of two characters.
C7_Witness ==
    /\ outcome = "done" /\ ~persistFailed /\ pc = "closed"
    /\ iterations >= 3
    /\ HasEvent("canvas") /\ HasEvent("citations")
    /\ Len(accumulatedText) >= 2

\* C8: the content of the persisted assistant message is the concatenation
\* of the text events of the stream and is the model's text of the final
\* iteration.
C8_PersistedTextIsStreamedText ==
    \A i \in AssistantRows :
        /\ dbMessages[i].content = TextOf(events)
        /\ dbMessages[i].content = accumulatedText

\* C8 witness: an assistant message of two characters was persisted after a
\* tool round.
C8_Witness ==
    \E i \in AssistantRows :
        Len(dbMessages[i].content) >= 2 /\ Len(toolCalls) >= 1

\* C9: the tool_result event of a chart, table or image result is directly
\* followed by the canvas event of that result, and every canvas event
\* directly follows the tool_result event of its result.
C9_CanvasFollowsToolResult ==
    /\ \A i \in DOMAIN events :
          (events[i].type = "tool_result"
             /\ events[i].result.type \in {"chart", "table", "image"})
          => /\ i + 1 <= Len(events)
             /\ events[i + 1].type = "canvas"
             /\ events[i + 1].result = events[i].result
    /\ \A i \in DOMAIN events :
          events[i].type = "canvas"
          => /\ i > 1
             /\ events[i - 1].type = "tool_result"
             /\ events[i - 1].result = events[i].result

\* C9 witness: a chart and an image were produced, the first of them by a
\* response with a further tool call after it.
C9_Witness ==
    /\ \E i \in DOMAIN events : events[i].type = "canvas" /\ events[i].result.type = "chart"
    /\ \E i \in DOMAIN events : events[i].type = "canvas" /\ events[i].result.type = "image"
    /\ \E i \in DOMAIN events :
          /\ events[i].type = "canvas"
          /\ i + 1 <= Len(events)
          /\ events[i + 1].type = "tool_start"

\* C10: once Stop was pressed, no step of the server starts a model call
\* (iterations grows) or a tool execution (toolCalls grows).
C10_StopStartsNothing ==
    [][stopPressed => (iterations' = iterations /\ Len(toolCalls') = Len(toolCalls))]_vars

RECURSIVE TotalChars(_)
TotalChars(msgs) ==
    IF msgs = <<>> THEN 0 ELSE Len(Head(msgs).content) + TotalChars(Tail(msgs))

\* The code configures no cap.  The claims are stated for caps that the
\* bounded histories and messages can exceed.
ContextCap == MaxHistory * MaxMsgLen
NewestTurnCap == MaxMsgLen - 1
OmittedPlaceholder == <<"[earlier context omitted]">>

\* C11: the message list sent to the model has at most ContextCap
\* characters in total and its newest turn at most NewestTurnCap.
C11_BundleWithinCaps ==
    pcCtx = "sent"
    => /\ TotalChars(anthropicMessages) <= ContextCap
       /\ Len(anthropicMessages[Len(anthropicMessages)].content) <= NewestTurnCap

\* C12: when history plus new message exceed the cap, the list sent to the
\* model contains a placeholder turn saying that earlier context was
\* omitted, and no turn is shortened while an older turn is kept whole.
C12_OmittedPlaceholderTurn ==
    (pcCtx = "sent" /\ TotalChars(messages) > ContextCap)
    => /\ \E i \in DOMAIN anthropicMessages :
             anthropicMessages[i].content = OmittedPlaceholder
       /\ Len(anthropicMessages) = Len(messages)
          => \A i, j \in DOMAIN messages :
                (i < j /\ Len(anthropicMessages[j].content) < Len(messages[j].content))
                => Len(anthropicMessages[i].content) < Len(messages[i].content)

\* The verdict the scores call for: PASS requires all scores >= 7, FAIL if
\* any score <= 3.
Verdict(scores) ==
    IF \A c \in DOMAIN scores : scores[c] >= 7 THEN "PASS"
    ELSE IF \E c \in DOMAIN scores : scores[c] <= 3 THEN "FAIL"
    ELSE "NEEDS_IMPROVEMENT"

\* The evaluations ReportEvaluator.evaluate has returned in this run and that
\* are still held.
ReturnedEvaluations ==
    (IF pcEval \in {"initial_eval", "idle"} THEN {} ELSE {initialEvaluation})
        \cup (IF ended # "" \/ pcEval = "opt_improve" THEN {evaluation} ELSE {})

\* C13: the status evaluate returns is PASS, FAIL or NEEDS_IMPROVEMENT and
\* is the verdict its returned scores call for.
C13_VerdictFollowsScores ==
    \A ev \in ReturnedEvaluations :
        /\ ev.status \in {"PASS", "NEEDS_IMPROVEMENT", "FAIL"}
        /\ ev.status = Verdict(ev.scores)

\* C14: two runs of optimize that return the same output (report,
\* iterations, final score) ended the same way: both with a PASS verdict, or
\* both at the iteration cap without one.
C14_OutputTellsPassFromGaveUp ==
    (prevEnded # "" /\ ended # "" /\ optimized = prevOptimized)
    => ended = prevEnded

\* C15: optimize never counts more iterations and never requests more
\* rewrites than its maximum (3 when none is given); it rewrites only after
\* an evaluation that is not PASS, returns at the first PASS, and otherwise
\* returns only when the maximum is reached.
C15_OptimizeBounded ==
    /\ optIterations <= EffectiveMax(evalInput)
    /\ rewrites <= EffectiveMax(evalInput)
    /\ pcEval = "opt_improve" => evaluation.status # "PASS"
    /\ pcEval = "opt_eval" => rewrites = optIterations - 1
    /\ ended # ""
       => /\ optimized.iterations = optIterations
          /\ \/ /\ evaluation.status = "PASS"
                /\ rewrites = optimized.iterations - 1
             \/ /\ optimized.iterations = EffectiveMax(evalInput)
                /\ rewrites = EffectiveMax(evalInput)

\* A run without a maximum gives up after the default number of iterations
\* and rewrites.
C15_Witness ==
    /\ evalInput.maxIterations = 0
    /\ ended = "gave_up"
    /\ optimized.iterations = DefaultMaxIterations
    /\ rewrites = DefaultMaxIterations

\* C16: evaluate_report with optimize = true on a draft scored
\* {accuracy 8, completeness 5, clarity 9, actionability 6} returns with the
\* verdict NEEDS_IMPROVEMENT, after at least one rewrite, and its output
\* carries an iteration count >= 1.
C16_ScenarioImprovesOnce ==
    (pcEval = "returned" /\ evalInput.optimize /\ initialEvaluation.scores = ScenarioScores)
    => /\ initialEvaluation.status = "NEEDS_IMPROVEMENT"
       /\ rewrites >= 1
       /\ "iterations" \in DOMAIN evalOutput.data
       /\ evalOutput.data.iterations >= 1

\* C17: when analyze has ended there is exactly one worker result per
\* subtask of the decomposition, in order, each with its subtask's type,
\* also when worker calls failed.
C17_OneResultPerSubTask ==
    pcOrch \in {"returned", "failed"}
    => /\ Len(workerResults) = Len(subtasks)
       /\ \A i \in DOMAIN workerResults : workerResults[i].type = subtasks[i].type

\* C18: a worker call that rejects does not end analyze: the subtask's
\* result is an "analysis unavailable" placeholder and the run goes on to
\* the remaining subtasks and the synthesis.
AnalysisUnavailable == <<"analysis unavailable">>
C18_FailedSubTaskDegrades ==
    failedAt = "worker"
    => /\ pcOrch # "failed"
       /\ Len(workerResults) >= workerIdx
       /\ workerResults[workerIdx].result = AnalysisUnavailable

\* Every tool call of the run so far was a search_documents call.
OnlySearched ==
    /\ Len(toolCalls) >= 1
    /\ \A i \in DOMAIN toolCalls : toolCalls[i].name = "search_documents"

\* The id under which executeSearchDocuments labels its placeholder.
PlaceholderId == "demo-1"

C20_DoneCarriesUsage ==
    \A i \in DOMAIN events :
        events[i].type = "done"
        => events[i].usage = <<totalInputTokens, totalOutputTokens>>

\* The rows request r has put in the messages table.
RowsOf(r) == {i \in DOMAIN messagesTable : messagesTable[i].post = r}

\* C21: a request whose message is missing or is not a string gets no
\* streaming response and no stream event, creates no thread and persists
\* no message.
C21_BadMessageRejected ==
    \A r \in DOMAIN posts :
        (posts[r].message.type # "string" /\ posts[r].pc # "received")
        => /\ posts[r].pc = "responded"
           /\ posts[r].status = 400
           /\ ~posts[r].sentThread
           /\ RowsOf(r) = {}
           /\ \A i \in DOMAIN threadsTable : threadsTable[i] # NewThreadId(r)

\* C21 witness: a request with a number as message was answered 400 while
\* another request was streaming.
C21_Witness ==
    /\ posts # <<>>
    /\ \E r, q \in DOMAIN posts :
          /\ posts[r].message.type = "number" /\ posts[r].status = 400
          /\ posts[q].pc = "streaming" /\ RowsOf(q) # {}

\* C22: the history a request is about to load holds no turn of another
\* request of the same thread whose loop is still running.
C22_TurnsHiddenWhileRunning ==
    \A r, q \in DOMAIN posts :
        (r # q /\ posts[q].pc = "loading_history" /\ posts[r].pc = "streaming")
        => \A i \in DOMAIN ThreadHistory(posts[q].currentThreadId) :
              ThreadHistory(posts[q].currentThreadId)[i].post # r

\* user and assistant turns alternate, starting with a user turn.
Alternates(rows) ==
    /\ Len(rows) % 2 = 0
    /\ \A i \in DOMAIN rows : rows[i].role = IF i % 2 = 1 THEN "user" ELSE "assistant"

\* C30: when requests that never overlapped have all ended, the history of
\* the thread alternates between user and assistant turns, and no request
\* loaded a history that does not.
C30_HistoryAlternates ==
    (/\ posts # <<>>
     /\ ~overlapped
     /\ \A r \in DOMAIN posts : ~UnderWay(r))
    => /\ Alternates(ThreadHistory("t1"))
       /\ \A r \in DOMAIN posts : Alternates(posts[r].previousMessages)

\* Every tool call of the run so far named a tool that is not registered.
OnlyUnknownCalled ==
    /\ Len(toolCalls) >= 1
    /\ \A i \in DOMAIN toolCalls : toolCalls[i].name \notin RegisteredTools

\* C23: a call of a tool that is not registered never ends the loop; its
\* tool_start event is directly followed by its tool_result event, whose
\* result is the error naming the tool; that result is the one pushed for
\* the model; and when the round leaves the loop a further iteration, the
\* next model call is made.
C23_UnknownToolIsErrorResult ==
    /\ outcome = "tool_error" => toolUseBlocks[toolIdx] \in RegisteredTools
    /\ \A i \in DOMAIN events :
          (events[i].type = "tool_start" /\ events[i].tool \notin RegisteredTools
             /\ i < Len(events))
          => /\ events[i + 1].type = "tool_result"
             /\ events[i + 1].tool = events[i].tool
             /\ ~events[i + 1].result.threw
             /\ events[i + 1].result.error = "Unknown tool: " \o events[i].tool
    /\ \A j \in DOMAIN toolResults :
          toolUseBlocks[j] \notin RegisteredTools
          => toolResults[j].content.error = "Unknown tool: " \o toolUseBlocks[j]
    /\ (OnlyUnknownCalled /\ iterations < maxIterations /\ pc # "executing_tool")
       => /\ iterations >= 2
          /\ outcome \notin {"tool_error", "cap"}

\* C23 witness: after two rounds of unknown tool calls the model was called
\* a third time and the request was closed with done.
C23_Witness ==
    /\ OnlyUnknownCalled /\ Len(toolCalls) >= 2
    /\ iterations = 3 /\ pc = "closed" /\ outcome = "done"
    /\ \E i \in DOMAIN events : events[i].type = "tool_result"
                                   /\ events[i].result.error = "Unknown tool: send_email"

\* The results answer the calls one to one: same number, same order, each
\* under the id of its call and with the result of that call.
AnswersOneToOne(results, calls) ==
    /\ Len(results) = Len(calls)
    /\ \A j \in DOMAIN results :
          /\ results[j].type = "tool_result"
          /\ results[j].tool_use_id = calls[j].id
          /\ results[j].content = ResultText(calls[j])

\* C24: the turns appended to the conversation come in pairs, the assistant
\* turn of a response with tool calls directly followed by one user turn
\* whose tool results answer the tool calls of that response one to one, in
\* the order of the calls; the results collected during a round answer the
\* calls executed so far in the same way.
C24_ResultsMatchCalls ==
    /\ Len(currentMessages) % 2 = 0
    /\ \A k \in DOMAIN currentMessages :
          IF k % 2 = 1
          THEN /\ currentMessages[k].role = "assistant"
               /\ ToolUseBlocks(currentMessages[k].content) # <<>>
          ELSE /\ currentMessages[k].role = "user"
               /\ AnswersOneToOne(currentMessages[k].content,
                                  ToolUseBlocks(currentMessages[k - 1].content))
    /\ pcRound = "executing_tool"
       => AnswersOneToOne(roundResults, SubSeq(roundBlocks, 1, Len(roundResults)))

\* C24 witness: two tool rounds were appended, one of them with two tool
\* calls around a text block.
C24_Witness ==
    /\ Len(currentMessages) = 4
    /\ \E k \in DOMAIN currentMessages :
          /\ currentMessages[k].role = "assistant"
          /\ Len(currentMessages[k].content) = 3
          /\ currentMessages[k].content[2].type = "text"
          /\ Len(currentMessages[k + 1].content) = 2

\* The text of a response: its pieces, the blocks inside their tags.
RECURSIVE RawText(_)
RawText(response) ==
    IF response = <<>> THEN <<>>
    ELSE (IF Head(response).tag = "" THEN <<Head(response).body>>
          ELSE <<"<" \o Head(response).tag \o ">", Head(response).body,
                 "</" \o Head(response).tag \o ">">>) \o RawText(Tail(response))

\* C25: the result of a worker whose response has no <analysis> block has
\* the text of the response as its narrative.
C25_RawTextIsNarrative ==
    \A i \in DOMAIN workerResults :
        extractXml(workerResponses[i], "analysis") = ""
        => /\ workerResults[i].result[1] # ""
           /\ workerResults[i].result[1] \in {RawText(workerResponses[i])[j] :
                                                j \in DOMAIN RawText(workerResponses[i])}

\* ascending by priority
SortedByPriority(tasks) ==
    \A i, j \in DOMAIN tasks : i < j => tasks[i].priority <= tasks[j].priority

\* C26: the subtasks analyze executes are 2 to 4, each with a type of the
\* enumeration and a priority, in ascending order of priority.
C26_TwoToFourTypedSubTasks ==
    pcOrch \in {"worker", "synthesis", "returned"}
    => /\ Len(subtasks) \in 2..4
       /\ \A i \in DOMAIN subtasks : subtasks[i].type \in FinancialTaskType
       /\ SortedByPriority(subtasks)

\* The placeholders of the request in the page's list.
Placeholders == {i \in DOMAIN pageMessages : pageMessages[i].id = "local-2"}

\* C27: the streaming content of the placeholder is the content of the text
\* events handled so far, in order.
C27_TextReachesPlaceholder ==
    \A i \in Placeholders : pageMessages[i].streamingContent = TextOf(handled)

\* The events the server wrote: one per seven characters of the body.
RECURSIVE Decode(_)
Decode(chars) ==
    IF Len(chars) < 7 THEN <<>>
    ELSE <<SseEvent(chars[2], chars[5])>> \o Decode(SubSeq(chars, 8, Len(chars)))

\* C28: the events handled are the events the server wrote, in order: a
\* prefix of them while the body is read, all of them when the stream has
\* ended.
C28_HandledIsEnqueued ==
    /\ Len(handled) <= Len(Decode(wire))
    /\ handled = SubSeq(Decode(wire), 1, Len(handled))
    /\ (pcPage = "ended" /\ wire # <<>>) => handled = Decode(wire)

\* C29: when handleSend has returned, the placeholder is gone or is no
\* longer streaming and has the streamed text as content.
C29_PlaceholderSettled ==
    pcPage = "ended"
    => \A i \in Placeholders :
          /\ ~pageMessages[i].isStreaming
          /\ pageMessages[i].content = pageMessages[i].streamingContent
====
